---- MODULE Spec2Model ----
(***************************************************************************)
(* Activity telemetry and classification pipeline of the coach desktop     *)
(* application: the capture scheduler (startScreenCapture,                 *)
(* stopScreenCapture, setScreenCaptureInterval), the single-flight         *)
(* classification gate (analyzeScreenshotWithGemini) and the statistics    *)
(* store's insert_activity_stat.                                           *)
(*                                                                         *)
(* The main process is a single-threaded event loop.  Every action of the  *)
(* scheduler part is one run-to-completion segment of JavaScript: the code *)
(* from an event (an IPC call, a timer callback, the completion of an      *)
(* awaited external call) up to the next await of an external call.  An    *)
(* await of an already settled promise (the async helpers that only run    *)
(* synchronous code) resumes in the microtask queue of the same segment,   *)
(* before any other event is served, and is not a suspension point.        *)
(*                                                                         *)
(* The specifications share the variables:                                 *)
(*   Spec       the scheduler and the gate of one process, with the store  *)
(*              executing each insert_activity_stat call as one            *)
(*              transaction;                                               *)
(*   SpecStore  several database sessions running insert_activity_stat     *)
(*              concurrently, statement by statement;                      *)
(* and one specification for each part that needs state of its own (the    *)
(* timers on a clock, the queries, the events sent out, the frame files,   *)
(* the prior-activity hint), introduced with its section.                  *)
(***************************************************************************)
EXTENDS Integers, Sequences, FiniteSets, Bags, TLC

(***************************************************************************)
(* Bounds of the model.                                                    *)
(***************************************************************************)
\* coroutines (start, stop and capture-cycle invocations) suspended at once
MaxTasks == 2
\* rows the stats table holds in Spec
MaxRecords == 1
\* largest p_seconds of an insert_activity_stat call in SpecStore
MaxSeconds == 2
\* rows the stats table holds in SpecStore
MaxRows == 3
\* database sessions calling insert_activity_stat concurrently
MaxClients == 2
\* SpecTimer: the clock runs from 0 to MaxTime seconds
MaxTime == 4
\* SpecQuery: the stats table holds up to MaxQueryRows rows
MaxQueryRows == 2
\* SpecOutput: stats-updated events sent in one run
MaxBroadcasts == 2
\* SpecOutput: classifier requests left outstanding by a timeout at once
MaxAbandoned == 1
\* SpecHint: records other processes store for the owner
MaxOtherInserts == 1
\* SpecCapture: frames written to the screenshot folder
MaxFrames == 2
\* SpecCapture: the clock runs from 0 to MaxClock seconds
MaxClock == 1

(***************************************************************************)
(* Program constants and null values.                                      *)
(***************************************************************************)
\* captureSettings.interval before any start: 18 seconds
DefaultInterval == 18
\* `undefined` of the optional timestamps, SQL NULL of v_previous_seq_time
Undefined == -1
\* `null` of the captureInterval handle
NoTimer == 0
\* maxWaitMs of stopScreenCapture: the grace period for an in-flight analysis
MaxWaitMs == 5000
\* imageBuffer.length < 1000: the smallest encoded size of a frame that is kept
MinFrameBytes == 1000

VARIABLES
  captureInterval,  \* handle of the timer the scheduler references: its period, or NoTimer
  orphanTimers,     \* periods of the live timers no handle references any more
  captureSettings,  \* [isCapturing, interval, sessionStartAt, sessionEndAt]
  isAnalyzing,      \* the single-flight guard
  stopRequested,    \* the cooperative abort flag
  persisted,        \* the settings file: [exists, interval, isCapturing]
  genAI,            \* the classifier client is initialised
  supabase,         \* the store client is initialised
  userEmail,        \* a user is signed in
  popup,            \* the intervention popup: [open, flagged]
  initialized,      \* initializeScreenCapture has run
  tasks,            \* bag of the suspended coroutines
  lastOutcome,      \* history: how the last completed startScreenCapture or
                    \* analyzeScreenshotWithGemini call ended
  stoppedSince,     \* history: a stop has returned and start was not called since
  now,              \* wall clock (no step of Spec advances it: a behaviour of Spec
                    \* happens within one clock instant)
  stats,            \* the stats table, rows in insertion order
  session,          \* SpecStore: the database sessions
  advisoryLocks,    \* SpecStore: advisory lock key -> holding session (0: free)
  handleDue,        \* SpecTimer: when the timer of captureInterval fires next (Undefined: no timer)
  orphanDue,        \* SpecTimer: [period, at] of every live timer no handle references
  lastFire,         \* SpecTimer, history: when the last capture cycle fired (Undefined: never)
  swapMin,          \* SpecTimer, history: min(old, new) of the last change of the period
                    \* by setScreenCaptureInterval in the running session (0: none)
  queryResult,      \* SpecQuery: [fn, rows], what the last aggregation query returned
  broadcasts,       \* SpecOutput: the number of stats-updated events sent to the windows
  abandoned,        \* SpecOutput: the classifier requests still outstanding whose await
                    \* was ended by the 30 s timer
  screenshots,      \* SpecCapture: the bag of the paths fs.writeFileSync has written a
                    \* frame to (a path written twice holds the later frame only)
  lastCaptureTime,  \* SpecCapture: captureSettings.lastCaptureTime, in milliseconds
  millis,           \* SpecCapture: the milliseconds of the wall clock within second `now`
  hint,             \* SpecHint: created_at of the record getMostRecentActivity returned
                    \* to the classification in flight (Undefined: none)
  otherInserts      \* SpecHint: the records other processes have stored for the owner

schedVars == <<captureInterval, orphanTimers, captureSettings, isAnalyzing, stopRequested,
               persisted, genAI, supabase, userEmail, popup, initialized, tasks,
               lastOutcome, stoppedSince, now>>
storeVars == <<session, advisoryLocks>>
timerVars == <<handleDue, orphanDue, lastFire, swapMin>>
outVars == <<broadcasts, abandoned>>
capVars == <<screenshots, lastCaptureTime, millis, hint, otherInserts>>
auxVars == <<timerVars, queryResult, outVars, capVars>>
vars == <<schedVars, stats, storeVars, auxVars>>

(***************************************************************************)
(* The stats table and insert_activity_stat.                               *)
(***************************************************************************)
\* owners (the email column); "me" is the user of the modelled process
Owners == {"me", "other"}

\* the key insert_activity_stat locks: hashtext(p_email), a 32-bit hash of
\* the text; here two keys, every email other than "me" hashing to the second
Hashtext(email) == IF email = "me" THEN 1 ELSE 2

LockKeys == {Hashtext(e) : e \in Owners}

\* created_at of a new row: the column default stamps rows in insertion order
CreatedAtDefault(table) == Len(table) + 1

\* the positions of an owner's rows
RowsOf(table, email) == {i \in 1..Len(table) : table[i].email = email}

\* SELECT seq_time FROM stats WHERE email = p_email ORDER BY created_at DESC LIMIT 1
PreviousSeqTime(table, email) ==
  IF RowsOf(table, email) = {} THEN Undefined
  ELSE LET last == CHOOSE i \in RowsOf(table, email) :
                     \A j \in RowsOf(table, email) : table[j].created_at <= table[i].created_at
       IN  table[last].seq_time

\* mutant: the increment is dropped, every row starts a fresh run
SeqTimeNoIncrement(previous, p_seconds, p_same_task) == p_seconds

\* mutant: p_same_task is ignored, every row extends the previous run
SeqTimeIgnoresSameTask(previous, p_seconds, p_same_task) ==
  IF previous # Undefined THEN previous + p_seconds ELSE p_seconds

\* IF p_same_task AND v_previous_seq_time IS NOT NULL THEN ... ELSE ...
SeqTime(previous, p_seconds, p_same_task) ==
  IF p_same_task /\ previous # Undefined THEN previous + p_seconds ELSE p_seconds

\* INSERT INTO stats (...) VALUES (...): the new row, with the columns the
\* modelled operations read; same_task is a history field (the call's
\* p_same_task), not a column
NewRow(table, email, seconds, seq_time, same_task) ==
  [email |-> email, seconds |-> seconds, seq_time |-> seq_time,
   created_at |-> CreatedAtDefault(table), same_task |-> same_task]

\* one whole insert_activity_stat call run as a single transaction
InsertActivityStat(table, email, seconds, same_task) ==
  Append(table, NewRow(table, email, seconds,
                       SeqTime(PreviousSeqTime(table, email), seconds, same_task),
                       same_task))

(***************************************************************************)
(* SpecStore: concurrent sessions, one statement per step.                 *)
(***************************************************************************)
Clients == 1..MaxClients

IdleSession == [pc |-> "idle", email |-> "me", seconds |-> 0, same_task |-> FALSE,
                previous |-> Undefined]

\* mutant: the advisory lock is not taken into account
LockAlwaysAvailable(key) == TRUE

\* pg_advisory_xact_lock(key) returns only when no other session holds key
LockAvailable(key) == advisoryLocks[key] = 0

\* a client calls the function: the transaction begins
CallInsert(c, email, seconds, same_task) ==
  /\ session[c].pc = "idle"
  /\ Len(stats) + Cardinality({d \in Clients : session[d].pc # "idle"}) < MaxRows
  /\ session' = [session EXCEPT ![c] = [pc |-> "lock", email |-> email, seconds |-> seconds,
                                         same_task |-> same_task, previous |-> Undefined]]
  /\ UNCHANGED <<schedVars, stats, advisoryLocks, auxVars>>

\* PERFORM pg_advisory_xact_lock(hashtext(p_email))
AcquireLock(c) ==
  /\ session[c].pc = "lock"
  /\ LockAvailable(Hashtext(session[c].email))
  /\ advisoryLocks' = [advisoryLocks EXCEPT ![Hashtext(session[c].email)] = c]
  /\ session' = [session EXCEPT ![c].pc = "select"]
  /\ UNCHANGED <<schedVars, stats, auxVars>>

\* SELECT seq_time INTO v_previous_seq_time ...
SelectPrevious(c) ==
  /\ session[c].pc = "select"
  /\ session' = [session EXCEPT ![c].pc = "insert",
                                ![c].previous = PreviousSeqTime(stats, session[c].email)]
  /\ UNCHANGED <<schedVars, stats, advisoryLocks, auxVars>>

\* the IF, the INSERT, RETURN QUERY and the commit, which makes the row visible
\* and releases the transaction's advisory lock
InsertAndCommit(c) ==
  /\ session[c].pc = "insert"
  /\ stats' = Append(stats, NewRow(stats, session[c].email, session[c].seconds,
                                   SeqTime(session[c].previous, session[c].seconds,
                                           session[c].same_task),
                                   session[c].same_task))
  /\ advisoryLocks' = [k \in LockKeys |-> IF advisoryLocks[k] = c THEN 0 ELSE advisoryLocks[k]]
  /\ session' = [session EXCEPT ![c] = IdleSession]
  /\ UNCHANGED <<schedVars, auxVars>>

(***************************************************************************)
(* The scheduler and the gate: coroutines and helpers.                     *)
(***************************************************************************)
\* a coroutine suspended at an await.  kind: which API call or callback it
\* belongs to ("start": startScreenCapture awaiting its first capture cycle,
\* "tick": a timer callback's capture cycle, "stop": stopScreenCapture in its
\* polling loop); pc: the external call it awaits; arg: start's interval, and
\* for stop (history) whether another stop was already polling when it was called;
\* seconds, same_task, lockedIn: the arguments of the outstanding insert;
\* ok: the insert succeeded; flagged: history, see FlagInFlight; captured:
\* history, the stored interval when the frame under analysis was captured
Task(kind, pc, arg) ==
  [kind |-> kind, pc |-> pc, arg |-> arg, seconds |-> 0, same_task |-> FALSE,
   lockedIn |-> TRUE, ok |-> FALSE, flagged |-> FALSE, captured |-> 0]

One(x) == SetToBag({x})

Suspended == BagToSet(tasks)

Replace(t, u) == (tasks (-) One(t)) (+) One(u)

\* history: marks the classifications that have not yet passed the post-call
\* checks of stopRequested and isCapturing when stop is requested
FlagInFlight(bag) ==
  LET Flag(t) == IF t.pc \in {"prev", "gemini"} THEN [t EXCEPT !.flagged = TRUE] ELSE t
  IN  BagOfAll(Flag, bag)

\* mutant: saveSettings writes the interval and leaves isCapturing as the file has it
SavedIntervalOnly(settings) ==
  [exists |-> TRUE, interval |-> settings.interval, isCapturing |-> persisted.isCapturing]

\* saveSettings(): the file's content after the write
Saved(settings) ==
  [exists |-> TRUE, interval |-> settings.interval, isCapturing |-> settings.isCapturing]

\* the periods of the live repeating timers
LiveTimers ==
  orphanTimers \cup (IF captureInterval # NoTimer THEN {captureInterval} ELSE {})

\* mutant: the popup is never taken to be open
PopupNeverOpen == FALSE

\* isPopupOpen(): the intervention popup is active and its window exists
IsPopupOpen == popup.open

\* the stopScreenCapture calls suspended in their polling loop
Polling == {t \in Suspended : t.pc = "poll"}

\* mutant: the polling loop has no grace period and waits for the analysis
PollLoopWaitsForAnalysis == ~isAnalyzing

\* the polling loop's condition is false at some poll: the analysis has
\* completed, or the elapsed time has reached maxWaitMs
PollLoopExits == \E elapsed \in {0, MaxWaitMs} : ~(isAnalyzing /\ elapsed < MaxWaitMs)

\* mutant: the permission status is not consulted
PermissionNotChecked(granted) == FALSE

\* if (!hasPermission) of startScreenCapture
PermissionDenied(granted) == ~granted

\* mutant: the single-flight check never sees a running analysis
AnalysisNeverInProgress == FALSE

\* if (isAnalyzing) at the entry of analyzeScreenshotWithGemini
AnalysisInProgress == isAnalyzing

\* mutant: the guard is released on the normal paths only, not when the
\* classifier call throws or times out
GuardKeptOnError(exit) == exit \in {"error", "timeout"}

\* finally { isAnalyzing = false }: the guard's value when analyze returns
\* through exit path `exit`
GuardAfterFinally(exit) == FALSE

\* mutant: a failed classification or insert escapes to the timer callback
\* and ends the repeating timer
EndCycleStopsOnFailure(t, outcome) ==
  /\ tasks' = tasks (-) One(t)
  /\ IF t.kind = "start"
     THEN /\ captureInterval' = t.arg
          /\ orphanTimers' = orphanTimers \cup
                               (IF captureInterval # NoTimer THEN {captureInterval} ELSE {})
          /\ lastOutcome' = "start:ok"
     ELSE /\ lastOutcome' = outcome
          /\ captureInterval' = IF outcome \in {"error", "timeout", "insertError"}
                                THEN NoTimer ELSE captureInterval
          /\ UNCHANGED orphanTimers

\* captureScreenshot returns and its caller runs to its end: a timer callback
\* ends; startScreenCapture sets up the repeating timer and returns success
EndCycle(t, outcome) ==
  /\ tasks' = tasks (-) One(t)
  /\ IF t.kind = "start"
     THEN \* captureInterval = setInterval(...): a timer the handle still
          \* references stays live
          /\ captureInterval' = t.arg
          /\ orphanTimers' = orphanTimers \cup
                               (IF captureInterval # NoTimer THEN {captureInterval} ELSE {})
          /\ lastOutcome' = "start:ok"
     ELSE /\ lastOutcome' = outcome
          /\ UNCHANGED <<captureInterval, orphanTimers>>

\* the coroutine stays suspended, now as u
Await(t, u) ==
  /\ tasks' = Replace(t, u)
  /\ UNCHANGED <<captureInterval, orphanTimers, lastOutcome>>

\* analyze returns through its finally block
Finally(t, exit) ==
  /\ isAnalyzing' = GuardAfterFinally(exit)
  /\ EndCycle(t, exit)

\* readFileSync of the frame, then the classifier request is sent and awaited
\* (Promise.race with the 30 s timer); a failed read is caught
IssueRequest(t) ==
  \/ /\ isAnalyzing' = TRUE
     /\ Await(t, [t EXCEPT !.pc = "gemini",
                            !.captured = IF t.pc = "getSources" THEN captureSettings.interval
                                         ELSE t.captured])
  \/ Finally(t, "readError")

\* mutant: the abort flag is not looked at when the call is entered
EnterAnalysisIgnoresStop(t) ==
  IF popup.open
  THEN /\ UNCHANGED isAnalyzing
       /\ EndCycle(t, "skippedPopup")
  ELSE IF AnalysisInProgress
  THEN /\ UNCHANGED isAnalyzing
       /\ EndCycle(t, "skippedBusy")
  ELSE IF ~genAI
  THEN /\ UNCHANGED isAnalyzing
       /\ EndCycle(t, "skippedNoClient")
  ELSE IF userEmail
  THEN /\ isAnalyzing' = TRUE
       /\ Await(t, [t EXCEPT !.pc = "prev", !.captured = captureSettings.interval])
  ELSE IssueRequest(t)

\* mutant: the early returns pass through the finally block, as they would
\* if the checks stood inside the try statement
EnterAnalysisSkipReleases(t) ==
  IF popup.open
  THEN Finally(t, "skippedPopup")
  ELSE IF AnalysisInProgress
  THEN Finally(t, "skippedBusy")
  ELSE IF ~genAI
  THEN Finally(t, "skippedNoClient")
  ELSE IF stopRequested
  THEN Finally(t, "abortAtEntry")
  ELSE IF userEmail
  THEN /\ isAnalyzing' = TRUE
       /\ Await(t, [t EXCEPT !.pc = "prev", !.captured = captureSettings.interval])
  ELSE IssueRequest(t)

\* analyzeScreenshotWithGemini from its entry to its first await
EnterAnalysis(t) ==
  IF IsPopupOpen
  THEN /\ UNCHANGED isAnalyzing
       /\ EndCycle(t, "skippedPopup")
  ELSE IF AnalysisInProgress
  THEN /\ UNCHANGED isAnalyzing
       /\ EndCycle(t, "skippedBusy")
  ELSE IF ~genAI
  THEN /\ UNCHANGED isAnalyzing
       /\ EndCycle(t, "skippedNoClient")
  ELSE IF stopRequested
  THEN Finally(t, "abortAtEntry")
  ELSE IF userEmail
  THEN /\ isAnalyzing' = TRUE
       /\ Await(t, [t EXCEPT !.pc = "prev", !.captured = captureSettings.interval])
  ELSE IssueRequest(t)

\* mutant: the notification is sent whatever the classifier reported
NotifiedAlways(t, lockedIn) == [open |-> TRUE, flagged |-> t.flagged]

\* new Notification(...).show() and showPopupWindow(...) when not locked in
Notified(t, lockedIn) ==
  IF ~lockedIn THEN [open |-> TRUE, flagged |-> t.flagged] ELSE popup

(***************************************************************************)
(* The scheduler and the gate: actions.                                    *)
(***************************************************************************)
\* startScreenCapture(interval) up to its first await, from settings `cs`
StartBody(cs, interval, granted) ==
  /\ stoppedSince' = FALSE
  /\ IF PermissionDenied(granted)
     THEN /\ lastOutcome' = "start:permission"
          /\ captureSettings' = cs
          /\ UNCHANGED <<captureInterval, stopRequested, persisted, tasks>>
     ELSE IF interval < 1
     THEN \* the running timer was cleared before the interval is validated
          /\ captureInterval' = NoTimer
          /\ lastOutcome' = "start:interval"
          /\ captureSettings' = cs
          /\ UNCHANGED <<orphanTimers, stopRequested, persisted, tasks>>
     ELSE /\ BagCardinality(tasks) < MaxTasks
          /\ stopRequested' = FALSE
          /\ captureSettings' = [cs EXCEPT !.interval = interval, !.isCapturing = TRUE,
                                           !.sessionStartAt = now,
                                           !.sessionEndAt = Undefined]
          /\ persisted' = Saved(captureSettings')
          /\ IF IsPopupOpen
             THEN \* captureScreenshot returns at once
                  /\ captureInterval' = interval
                  /\ lastOutcome' = "start:ok"
                  /\ UNCHANGED tasks
             ELSE /\ captureInterval' = NoTimer
                  /\ tasks' = tasks (+) One(Task("start", "getSources", interval))
                  /\ UNCHANGED lastOutcome
  /\ UNCHANGED <<orphanTimers, isAnalyzing, genAI, supabase, userEmail, popup, now, stats,
                 storeVars>>

StartScreenCapture(interval, granted) ==
  /\ initialized
  /\ StartBody(captureSettings, interval, granted)
  /\ UNCHANGED <<initialized, auxVars>>

\* initializeScreenCapture(): loadSettings(), then the auto-start
InitializeScreenCapture(granted) ==
  /\ ~initialized
  /\ initialized' = TRUE
  /\ UNCHANGED auxVars
  /\ LET loaded == IF persisted.exists
                   THEN [captureSettings EXCEPT
                           !.interval = IF persisted.interval # 0 THEN persisted.interval
                                        ELSE DefaultInterval,
                           !.isCapturing = persisted.isCapturing]
                   ELSE captureSettings
     IN  IF loaded.isCapturing
         THEN StartBody(loaded, loaded.interval, granted)
         ELSE /\ captureSettings' = loaded
              /\ UNCHANGED <<captureInterval, orphanTimers, isAnalyzing, stopRequested, persisted,
                             genAI, supabase, userEmail, popup, tasks, lastOutcome,
                             stoppedSince, now, stats, storeVars>>

\* a repeating timer fires: captureScreenshot() up to await getSources
TickBody(period) ==
  /\ period \in LiveTimers
  /\ ~IsPopupOpen
  /\ BagCardinality(tasks) < MaxTasks
  /\ tasks' = tasks (+) One(Task("tick", "getSources", 0))
  /\ UNCHANGED <<captureInterval, orphanTimers, captureSettings, isAnalyzing, stopRequested,
                 persisted, genAI, supabase, userEmail, popup, initialized, lastOutcome,
                 stoppedSince, now, stats, storeVars>>

TimerTick(period) ==
  /\ TickBody(period)
  /\ UNCHANGED auxVars

\* desktopCapturer.getSources settles: the frame is rejected, the capture
\* throws, or the frame is written and handed to the gate
SourcesBody(t, frame) ==
  /\ t \in Suspended /\ t.pc = "getSources"
  /\ IF frame = "accepted"
     THEN EnterAnalysis(t)
     ELSE /\ EndCycle(t, lastOutcome)
          /\ UNCHANGED isAnalyzing
  /\ UNCHANGED <<captureSettings, stopRequested, persisted, genAI, supabase, userEmail, popup, initialized,
                 stoppedSince, now, stats, storeVars>>

SourcesReturn(t, frame) ==
  /\ SourcesBody(t, frame)
  /\ UNCHANGED auxVars

\* getMostRecentActivity settles (the hint for the prompt)
PreviousActivityBody(t) ==
  /\ t \in Suspended /\ t.pc = "prev"
  /\ IssueRequest(t)
  /\ UNCHANGED <<captureSettings, stopRequested, persisted, genAI, supabase, userEmail,
                 popup, initialized, stoppedSince, now, stats, storeVars>>

PreviousActivityReturn(t) ==
  /\ PreviousActivityBody(t)
  /\ UNCHANGED auxVars

\* mutant: there is no race with a timer, a late answer is processed as any other
RejectedWithoutTimer(outcome) == outcome = "error"

\* await Promise.race([geminiPromise, timeoutPromise]) throws: the classifier
\* call failed, or the 30 s timer rejected first
Rejected(outcome) == outcome \in {"error", "timeout"}

\* Promise.race settles: the classifier call failed, timed out, or answered
GeminiBody(t, outcome, lockedIn, same_task) ==
  /\ t \in Suspended /\ t.pc = "gemini"
  /\ IF Rejected(outcome)
     THEN /\ Finally(t, outcome)
          /\ UNCHANGED popup
     ELSE IF stopRequested
     THEN /\ Finally(t, "abortAfterCall")
          /\ UNCHANGED popup
     ELSE IF outcome = "noFunctionCall"
     THEN /\ Finally(t, outcome)
          /\ UNCHANGED popup
     ELSE IF ~captureSettings.isCapturing \/ stopRequested
     THEN /\ Finally(t, "stopped")
          /\ UNCHANGED popup
     ELSE IF userEmail /\ supabase
     THEN /\ Await(t, [t EXCEPT !.pc = "rpc", !.seconds = captureSettings.interval,
                                !.same_task = same_task, !.lockedIn = lockedIn])
          /\ UNCHANGED <<isAnalyzing, popup>>
     ELSE /\ popup' = Notified(t, lockedIn)
          /\ Finally(t, "notLoggedIn")
  /\ UNCHANGED <<captureSettings, stopRequested, persisted, genAI, supabase, userEmail,
                 initialized, stoppedSince, now, stats, storeVars>>

GeminiReturn(t, outcome, lockedIn, same_task) ==
  /\ GeminiBody(t, outcome, lockedIn, same_task)
  /\ UNCHANGED auxVars

\* the store runs the insert_activity_stat call, or fails it; the table
\* holds up to `limit` rows
RpcExecuteBody(t, ok, limit) ==
  /\ t \in Suspended /\ t.pc = "rpc"
  /\ IF ok
     THEN /\ Len(stats) < limit
          /\ stats' = InsertActivityStat(stats, "me", t.seconds, t.same_task)
     ELSE UNCHANGED stats
  /\ tasks' = Replace(t, [t EXCEPT !.pc = "rpcDone", !.ok = ok, !.seconds = 0,
                                   !.same_task = FALSE, !.captured = 0])
  /\ UNCHANGED <<captureInterval, orphanTimers, captureSettings, isAnalyzing, stopRequested,
                 persisted, genAI, supabase, userEmail, popup, initialized, lastOutcome,
                 stoppedSince, now, storeVars>>

RpcExecute(t, ok) ==
  /\ RpcExecuteBody(t, ok, MaxRecords)
  /\ UNCHANGED auxVars

\* the rpc settles: log, notification when not locked in, finally
RpcReturnBody(t) ==
  /\ t \in Suspended /\ t.pc = "rpcDone"
  /\ popup' = Notified(t, t.lockedIn)
  /\ Finally(t, IF t.ok THEN "written" ELSE "insertError")
  /\ UNCHANGED <<captureSettings, stopRequested, persisted, genAI, supabase, userEmail,
                 initialized, stoppedSince, now, stats, storeVars>>

RpcReturn(t) ==
  /\ RpcReturnBody(t)
  /\ UNCHANGED auxVars

\* stopScreenCapture() up to its first poll, or to its end when nothing is in flight
StopBody ==
  /\ initialized
  /\ BagCardinality(tasks) < MaxTasks
  /\ captureInterval' = NoTimer
  /\ captureSettings' = [captureSettings EXCEPT !.isCapturing = FALSE, !.sessionEndAt = now]
  /\ stopRequested' = TRUE
  /\ persisted' = Saved(captureSettings')
  /\ IF isAnalyzing
     THEN /\ tasks' = FlagInFlight(tasks)
                         (+) One(Task("stop", "poll", IF Polling = {} THEN 0 ELSE 1))
          /\ UNCHANGED stoppedSince
     ELSE /\ tasks' = FlagInFlight(tasks)
          /\ stoppedSince' = TRUE
  /\ UNCHANGED <<orphanTimers, lastOutcome, isAnalyzing, genAI, supabase, userEmail, popup,
                 initialized, now, stats, storeVars>>

StopScreenCapture ==
  /\ StopBody
  /\ UNCHANGED auxVars

\* a poll of stopScreenCapture ends the loop: the analysis has completed or
\* the 5 s grace period is over; stop broadcasts and returns
StopPollBody(t) ==
  /\ t \in Suspended /\ t.pc = "poll"
  /\ PollLoopExits
  /\ tasks' = tasks (-) One(t)
  /\ stoppedSince' = TRUE
  /\ UNCHANGED <<lastOutcome, captureInterval, orphanTimers, captureSettings, isAnalyzing, stopRequested,
                 persisted, genAI, supabase, userEmail, popup, initialized, now, stats,
                 storeVars>>

StopPollReturn(t) ==
  /\ StopPollBody(t)
  /\ UNCHANGED auxVars

\* setScreenCaptureInterval(interval)
SetIntervalBody(interval) ==
  /\ initialized
  /\ IF interval < 1
     THEN \* throw new Error(...)
          UNCHANGED <<captureInterval, captureSettings, persisted>>
     ELSE /\ captureSettings' = [captureSettings EXCEPT !.interval = interval]
          /\ persisted' = Saved(captureSettings')
          /\ IF captureSettings.isCapturing /\ captureInterval # NoTimer
             THEN captureInterval' = interval
             ELSE UNCHANGED captureInterval
  /\ UNCHANGED <<orphanTimers, isAnalyzing, stopRequested, genAI, supabase, userEmail, popup,
                 initialized, tasks, lastOutcome, stoppedSince, now, stats, storeVars>>

SetScreenCaptureInterval(interval) ==
  /\ SetIntervalBody(interval)
  /\ UNCHANGED auxVars

\* signInWithGoogle succeeds: userEmail is stored
SignInWithGoogle ==
  /\ initialized
  /\ ~userEmail
  /\ userEmail' = TRUE
  /\ UNCHANGED <<captureInterval, orphanTimers, captureSettings, isAnalyzing, stopRequested,
                 persisted, genAI, supabase, popup, initialized, tasks, lastOutcome,
                 stoppedSince, now, stats, storeVars, auxVars>>

\* the popup window's "closed" event
PopupClosed ==
  /\ popup.open
  /\ popup' = [open |-> FALSE, flagged |-> FALSE]
  /\ UNCHANGED <<captureInterval, orphanTimers, captureSettings, isAnalyzing, stopRequested,
                 persisted, genAI, supabase, userEmail, initialized, tasks, lastOutcome,
                 stoppedSince, now, stats, storeVars, auxVars>>

InitSched ==
  /\ captureInterval = NoTimer
  /\ orphanTimers = {}
  /\ captureSettings = [isCapturing |-> FALSE, interval |-> DefaultInterval,
                        sessionStartAt |-> Undefined, sessionEndAt |-> Undefined]
  /\ isAnalyzing = FALSE
  /\ stopRequested = FALSE
  /\ popup = [open |-> FALSE, flagged |-> FALSE]
  /\ initialized = FALSE
  /\ tasks = EmptyBag
  /\ lastOutcome = "none"
  /\ stoppedSince = FALSE
  /\ now = 0
  /\ handleDue = Undefined
  /\ orphanDue = {}
  /\ lastFire = Undefined
  /\ swapMin = 0
  /\ queryResult = [fn |-> "none", rows |-> <<>>]
  /\ broadcasts = 0
  /\ abandoned = 0
  /\ screenshots = EmptyBag
  /\ lastCaptureTime = Undefined
  /\ millis = 0
  /\ hint = Undefined
  /\ otherInserts = 0

InitStore ==
  /\ InitSched
  /\ persisted = [exists |-> FALSE, interval |-> 0, isCapturing |-> FALSE]
  /\ genAI = TRUE
  /\ supabase = TRUE
  /\ userEmail = FALSE
  /\ stats = <<>>
  /\ session = [c \in Clients |-> IdleSession]
  /\ advisoryLocks = [k \in LockKeys |-> 0]

NextStore ==
  \/ \E c \in Clients, e \in Owners, s \in 1..MaxSeconds, b \in BOOLEAN : CallInsert(c, e, s, b)
  \/ \E c \in Clients : AcquireLock(c)
  \/ \E c \in Clients : SelectPrevious(c)
  \/ \E c \in Clients : InsertAndCommit(c)

SpecStore == InitStore /\ [][NextStore]_vars

\* the emails of SpecHash: emails are arbitrary text and hashtext has 2^32
\* values, so distinct emails share a key; "another" hashes as "other" does
HashedOwners == Owners \cup {"another"}

NextHash ==
  \/ \E c \in Clients, e \in HashedOwners, s \in 1..MaxSeconds, b \in BOOLEAN :
       CallInsert(c, e, s, b)
  \/ \E c \in Clients : AcquireLock(c)
  \/ \E c \in Clients : SelectPrevious(c)
  \/ \E c \in Clients : InsertAndCommit(c)

SpecHash == InitStore /\ [][NextHash]_vars


\* what the settings file holds when the process is launched
PersistedAtLaunch ==
  {[exists |-> FALSE, interval |-> 0, isCapturing |-> FALSE]}
    \cup {[exists |-> TRUE, interval |-> 1, isCapturing |-> b] : b \in BOOLEAN}

Init ==
  /\ InitSched
  /\ persisted \in PersistedAtLaunch
  /\ genAI \in BOOLEAN
  /\ supabase \in BOOLEAN
  /\ userEmail = FALSE
  /\ stats = <<>>
  /\ session = [c \in Clients |-> IdleSession]
  /\ advisoryLocks = [k \in LockKeys |-> 0]

\* the intervals callers supply: one below 1 and one valid; the code only
\* compares an interval with 1 and otherwise stores and forwards it
IntervalInputs == {0, 1}

Next ==
  \/ \E g \in BOOLEAN : InitializeScreenCapture(g)
  \/ \E i \in IntervalInputs, g \in BOOLEAN : StartScreenCapture(i, g)
  \/ \E p \in LiveTimers : TimerTick(p)
  \/ \E t \in Suspended, f \in {"rejected", "threw", "accepted"} : SourcesReturn(t, f)
  \/ \E t \in Suspended : PreviousActivityReturn(t)
  \/ \E t \in Suspended, o \in {"error", "timeout", "noFunctionCall", "focus"},
        l \in BOOLEAN, s \in BOOLEAN : GeminiReturn(t, o, l, s)
  \/ \E t \in Suspended, ok \in BOOLEAN : RpcExecute(t, ok)
  \/ \E t \in Suspended : RpcReturn(t)
  \/ StopScreenCapture
  \/ \E t \in Suspended : StopPollReturn(t)
  \/ \E i \in IntervalInputs : SetScreenCaptureInterval(i)
  \/ SignInWithGoogle
  \/ PopupClosed

Spec == Init /\ [][Next]_vars

\* the timers of the polling loop (setTimeout of 100 ms) always fire: a
\* suspended stopScreenCapture is resumed
PollTimersFire == \A a \in {0, 1} : WF_vars(StopPollReturn(Task("stop", "poll", a)))

SpecStop == Init /\ [][Next]_vars /\ PollTimersFire

\* the 30 s timer of Promise.race (setTimeout) always fires: a classification
\* awaiting the classifier is resumed, by the answer or by the timer
GeminiTimerFires ==
  WF_vars(\E t \in Suspended : GeminiReturn(t, "timeout", TRUE, FALSE))

\* the scheduler where the timers of the process fire and nothing is assumed
\* of the classifier and the store, which may never answer
SpecRelease == Init /\ [][Next]_vars /\ GeminiTimerFires

\* a launch after a run that was capturing at the default interval: the
\* settings file holds what saveSettings wrote then, both clients are configured
InitInterval ==
  /\ InitSched
  /\ persisted = [exists |-> TRUE, interval |-> DefaultInterval, isCapturing |-> TRUE]
  /\ genAI = TRUE
  /\ supabase = TRUE
  /\ userEmail = FALSE
  /\ stats = <<>>
  /\ session = [c \in Clients |-> IdleSession]
  /\ advisoryLocks = [k \in LockKeys |-> 0]

SpecInterval == InitInterval /\ [][Next]_vars

(***************************************************************************)
(* The scheduler with its timers on a clock (SpecTimer).  The classifier   *)
(* client is not configured, so analyzeScreenshotWithGemini returns at     *)
(* once and a capture cycle is captureScreenshot alone.                    *)
(***************************************************************************)
\* the periods callers supply, in seconds
TimerIntervals == {2, 3}

\* the live timers: setInterval fires its callback `period` seconds after it
\* was set, and then every `period` seconds
DueTimers ==
  (IF handleDue # Undefined
   THEN {[period |-> captureInterval, at |-> handleDue, orphan |-> FALSE]} ELSE {})
    \cup {[period |-> d.period, at |-> d.at, orphan |-> TRUE] : d \in orphanDue}

Min(a, b) == IF a <= b THEN a ELSE b

\* startScreenCapture(interval) up to its first await: the running timer is
\* cleared and the first capture cycle fires at once
TimedStart(interval) ==
  /\ UNCHANGED <<queryResult, outVars, capVars>>
  /\ initialized
  /\ StartBody(captureSettings, interval, TRUE)
  /\ handleDue' = IF captureInterval' = NoTimer THEN Undefined ELSE now + interval
  /\ IF interval >= 1
     THEN lastFire' = now /\ swapMin' = 0
     ELSE UNCHANGED <<lastFire, swapMin>>
  /\ UNCHANGED <<initialized, orphanDue>>

\* the first capture cycle of a startScreenCapture ends (its frame goes
\* nowhere without a classifier client) and start installs its timer
TimedStartResumes(t) ==
  /\ UNCHANGED <<queryResult, outVars, capVars>>
  /\ t \in Suspended /\ t.kind = "start" /\ t.pc = "getSources"
  /\ ~genAI
  /\ EndCycle(t, lastOutcome)
  /\ handleDue' = now + t.arg
  /\ orphanDue' = orphanDue \cup
                    (IF handleDue # Undefined
                     THEN {[period |-> captureInterval, at |-> handleDue]} ELSE {})
  /\ UNCHANGED <<captureSettings, isAnalyzing, stopRequested, persisted, genAI, supabase,
                 userEmail, popup, initialized, stoppedSince, now, stats, storeVars,
                 lastFire, swapMin>>

\* a timer is due: its callback calls captureScreenshot() and the timer is
\* armed for its next period
TimedTick(d) ==
  /\ UNCHANGED <<queryResult, outVars, capVars>>
  /\ d \in DueTimers /\ d.at = now
  /\ TickBody(d.period)
  /\ lastFire' = now
  /\ IF d.orphan
     THEN /\ orphanDue' = (orphanDue \ {[period |-> d.period, at |-> d.at]})
                            \cup {[period |-> d.period, at |-> d.at + d.period]}
          /\ UNCHANGED handleDue
     ELSE /\ handleDue' = d.at + d.period
          /\ UNCHANGED orphanDue
  /\ UNCHANGED swapMin

\* setScreenCaptureInterval(interval): the swapped timer first fires one new
\* period after the call
TimedSetInterval(interval) ==
  /\ UNCHANGED <<queryResult, outVars, capVars>>
  /\ SetIntervalBody(interval)
  /\ IF interval >= 1 /\ captureSettings.isCapturing /\ captureInterval # NoTimer
     THEN /\ handleDue' = now + interval
          /\ swapMin' = IF interval # captureInterval
                        THEN Min(captureInterval, interval) ELSE swapMin
     ELSE UNCHANGED <<handleDue, swapMin>>
  /\ UNCHANGED <<orphanDue, lastFire>>

\* stopScreenCapture(): the timer of the handle is cleared
TimedStop ==
  /\ UNCHANGED <<queryResult, outVars, capVars>>
  /\ StopBody
  /\ handleDue' = Undefined
  /\ swapMin' = 0
  /\ UNCHANGED <<orphanDue, lastFire>>

\* a second passes; a timer that is due fires first
Advance ==
  /\ now < MaxTime
  /\ \A d \in DueTimers : d.at > now
  /\ now' = now + 1
  /\ UNCHANGED <<captureInterval, orphanTimers, captureSettings, isAnalyzing, stopRequested,
                 persisted, genAI, supabase, userEmail, popup, initialized, tasks,
                 lastOutcome, stoppedSince, stats, storeVars, timerVars, queryResult, outVars,
                 capVars>>

\* a first launch (no settings file) without classifier and store clients
InitTimer ==
  /\ InitSched
  /\ persisted = [exists |-> FALSE, interval |-> 0, isCapturing |-> FALSE]
  /\ genAI = FALSE
  /\ supabase = FALSE
  /\ userEmail = FALSE
  /\ stats = <<>>
  /\ session = [c \in Clients |-> IdleSession]
  /\ advisoryLocks = [k \in LockKeys |-> 0]

NextTimer ==
  \/ \E g \in BOOLEAN : InitializeScreenCapture(g)
  \/ \E i \in TimerIntervals : TimedStart(i)
  \/ \E t \in Suspended : TimedStartResumes(t)
  \/ \E d \in DueTimers : TimedTick(d)
  \/ \E t \in Suspended, f \in {"rejected", "accepted"} : t.kind = "tick" /\ SourcesReturn(t, f)
  \/ \E n \in TimerIntervals : TimedSetInterval(n)
  \/ TimedStop
  \/ Advance

SpecTimer == InitTimer /\ [][NextTimer]_vars

(***************************************************************************)
(* The aggregation queries (SpecQuery): getTaskStats and                   *)
(* getLifetimeTaskStats applied to a stats table and a session window.     *)
(* The columns are the ones the queries read; total_hours, the quotient    *)
(* total_seconds / 3600, is left out.                                      *)
(***************************************************************************)
\* enum of task_category in checkUserFocusTool
TaskEnum ==
  {"Analytical", "Creative", "Reading", "Social Media", "Watching", "Conversation", "Other"}

\* const categories of getTaskStats and getLifetimeTaskStats
Categories ==
  <<"Analytical", "Conversation", "Creative", "Reading", "Social Media", "Watching">>

\* filteredQuery of getTaskStats: .gte('created_at', sinceIso) if sinceIso is
\* set, .lte('created_at', untilIso) if untilIso is set
InWindowExclusive(row, sinceIso, untilIso) ==
  /\ sinceIso # Undefined => row.created_at > sinceIso
  /\ untilIso # Undefined => row.created_at < untilIso

InWindow(row, sinceIso, untilIso) ==
  /\ sinceIso # Undefined => row.created_at >= sinceIso
  /\ untilIso # Undefined => row.created_at <= untilIso

\* the rows getTaskStats fetches
SessionRows(table, settings) ==
  SelectSeq(table, LAMBDA r : InWindow(r, settings.sessionStartAt, settings.sessionEndAt))

\* the rows getLifetimeTaskStats fetches: .eq('email', userEmail)
LifetimeRows(table, email) == SelectSeq(table, LAMBDA r : r.email = email)

RECURSIVE TotalSeconds(_, _)
\* byTask[task].total_seconds after the loop over the rows
TotalSeconds(rows, task) ==
  IF rows = <<>> THEN 0
  ELSE (IF Head(rows).task = task THEN Head(rows).seconds ELSE 0)
         + TotalSeconds(Tail(rows), task)

\* byTask[task].count after the loop over the rows
CountOf(rows, task) == Cardinality({i \in DOMAIN rows : rows[i].task = task})

\* the value both queries return for the fetched rows
Aggregated(rows) ==
  IF rows = <<>>
  THEN [i \in DOMAIN Categories |-> [task |-> Categories[i], count |-> 0, total_seconds |-> 0]]
  ELSE [i \in DOMAIN Categories |->
          [task |-> Categories[i], count |-> CountOf(rows, Categories[i]),
           total_seconds |-> TotalSeconds(rows, Categories[i])]]

\* the email of the signed-in user
SignedIn == IF userEmail THEN "me" ELSE "nobody"

\* getTaskStats(): fetchError is the store answering with an error
GetTaskStats(fetchError) ==
  /\ queryResult' = [fn |-> "getTaskStats",
                     rows |-> IF ~supabase \/ fetchError THEN <<>>
                              ELSE Aggregated(SessionRows(stats, captureSettings))]
  /\ UNCHANGED <<schedVars, stats, storeVars, timerVars, outVars, capVars>>

\* getLifetimeTaskStats()
GetLifetimeTaskStats(fetchError) ==
  /\ queryResult' = [fn |-> "getLifetimeTaskStats",
                     rows |-> IF ~supabase \/ fetchError THEN <<>>
                              ELSE Aggregated(LifetimeRows(stats, SignedIn))]
  /\ UNCHANGED <<schedVars, stats, storeVars, timerVars, outVars, capVars>>

\* the time stamps of rows and session bounds
Stamps == {0, 1, 2}

\* the rows a table may hold: two owners, a category the queries list and
\* the one they do not
QueryRow ==
  [email : Owners, task : {"Analytical", "Other"}, seconds : {1, 2},
   created_at : Stamps]

\* tables of up to MaxQueryRows rows, in insertion order
QueryTables ==
  {t \in UNION {[1..n -> QueryRow] : n \in 0..MaxQueryRows} :
     \A i \in DOMAIN t : i > 1 => t[i - 1].created_at <= t[i].created_at}

\* any table, any session window, a signed-in user
InitQuery ==
  /\ InitSched
  /\ persisted = [exists |-> FALSE, interval |-> 0, isCapturing |-> FALSE]
  /\ genAI = TRUE
  /\ supabase \in BOOLEAN
  /\ userEmail = TRUE
  /\ stats \in QueryTables
  /\ session = [c \in Clients |-> IdleSession]
  /\ advisoryLocks = [k \in LockKeys |-> 0]

\* a session window set by start and stop
SetWindow(since, until) ==
  /\ queryResult.fn = "none"
  /\ captureSettings.sessionStartAt = Undefined /\ captureSettings.sessionEndAt = Undefined
  /\ since # Undefined \/ until # Undefined
  /\ since # Undefined /\ until # Undefined => since <= until
  /\ captureSettings' = [captureSettings EXCEPT !.sessionStartAt = since, !.sessionEndAt = until]
  /\ UNCHANGED <<captureInterval, orphanTimers, isAnalyzing, stopRequested, persisted, genAI,
                 supabase, userEmail, popup, initialized, tasks, lastOutcome, stoppedSince,
                 now, stats, storeVars, auxVars>>

NextQuery ==
  \/ \E since, until \in Stamps \cup {Undefined} : SetWindow(since, until)
  \/ \E e \in BOOLEAN : GetTaskStats(e)
  \/ \E e \in BOOLEAN : GetLifetimeTaskStats(e)

SpecQuery == InitQuery /\ [][NextQuery]_vars

(***************************************************************************)
(* The scheduler, the classifier, the store and the session query in one   *)
(* run (SpecScenario): a signed-in user starts a capture, the classifier   *)
(* reports a category, the row is stored with its task column, the capture *)
(* is stopped and getTaskStats is called.                                  *)
(***************************************************************************)
\* the intervals passed to startScreenCapture: an invalid one and ten seconds
ScenarioIntervals == {0, 10}

\* the task_category values the classifier reports: one the queries list and
\* the one they do not
ScenarioTasks == {"Analytical", "Other"}

\* created_at of a row inserted during a run: the time of the insert, on the
\* clock that stamps sessionStartAt and sessionEndAt
CreatedAtNow == now

\* mutant: the insert overwrites the owner's most recent row when there is one
RpcUpsertTask(t, p_task) ==
  /\ t \in Suspended /\ t.pc = "rpc"
  /\ LET row == [email |-> "me", seconds |-> t.seconds,
                 seq_time |-> SeqTime(PreviousSeqTime(stats, "me"), t.seconds, t.same_task),
                 created_at |-> CreatedAtNow, same_task |-> t.same_task, task |-> p_task]
     IN  stats' = IF stats = <<>> THEN <<row>> ELSE [stats EXCEPT ![Len(stats)] = row]
  /\ tasks' = Replace(t, [t EXCEPT !.pc = "rpcDone", !.ok = TRUE, !.seconds = 0,
                                   !.same_task = FALSE, !.captured = 0])
  /\ UNCHANGED <<captureInterval, orphanTimers, captureSettings, isAnalyzing, stopRequested,
                 persisted, genAI, supabase, userEmail, popup, initialized, lastOutcome,
                 stoppedSince, now, storeVars, auxVars>>

\* the store runs insert_activity_stat(p_email, ..., p_seconds, p_task, p_same_task)
RpcExecuteTask(t, p_task) ==
  /\ t \in Suspended /\ t.pc = "rpc"
  /\ Len(stats) < MaxRecords
  /\ stats' = Append(stats,
                [email |-> "me", seconds |-> t.seconds,
                 seq_time |-> SeqTime(PreviousSeqTime(stats, "me"), t.seconds, t.same_task),
                 created_at |-> CreatedAtNow, same_task |-> t.same_task, task |-> p_task])
  /\ tasks' = Replace(t, [t EXCEPT !.pc = "rpcDone", !.ok = TRUE, !.seconds = 0,
                                   !.same_task = FALSE, !.captured = 0])
  /\ UNCHANGED <<captureInterval, orphanTimers, captureSettings, isAnalyzing, stopRequested,
                 persisted, genAI, supabase, userEmail, popup, initialized, lastOutcome,
                 stoppedSince, now, storeVars, auxVars>>

\* a first launch (no settings file), both clients configured, nobody signed in
InitScenario ==
  /\ InitSched
  /\ persisted = [exists |-> FALSE, interval |-> 0, isCapturing |-> FALSE]
  /\ genAI = TRUE
  /\ supabase = TRUE
  /\ userEmail = FALSE
  /\ stats = <<>>
  /\ session = [c \in Clients |-> IdleSession]
  /\ advisoryLocks = [k \in LockKeys |-> 0]

NextScenario ==
  \/ InitializeScreenCapture(TRUE)
  \/ SignInWithGoogle
  \/ \E i \in ScenarioIntervals : StartScreenCapture(i, TRUE)
  \/ \E p \in LiveTimers : TimerTick(p)
  \/ \E t \in Suspended, f \in {"rejected", "threw", "accepted"} : SourcesReturn(t, f)
  \/ \E t \in Suspended : PreviousActivityReturn(t)
  \/ \E t \in Suspended, o \in {"error", "focus"}, l \in BOOLEAN, s \in BOOLEAN :
       GeminiReturn(t, o, l, s)
  \/ \E t \in Suspended, p \in ScenarioTasks : RpcExecuteTask(t, p)
  \/ \E t \in Suspended : RpcExecute(t, FALSE)
  \/ \E t \in Suspended : RpcReturn(t)
  \/ StopScreenCapture
  \/ \E t \in Suspended : StopPollReturn(t)
  \/ PopupClosed
  \/ GetTaskStats(FALSE)

SpecScenario == InitScenario /\ [][NextScenario]_vars

\* every operation of the core on one run (SpecCore): start, stop,
\* setScreenCaptureInterval, the capture cycle and both aggregate queries.
\* The classifier reports one category and is_locked_in = true, so no popup opens
NextCore ==
  \/ InitializeScreenCapture(TRUE)
  \/ SignInWithGoogle
  \/ \E i \in ScenarioIntervals : StartScreenCapture(i, TRUE)
  \/ \E p \in LiveTimers : TimerTick(p)
  \/ \E t \in Suspended, f \in {"rejected", "accepted"} : SourcesReturn(t, f)
  \/ \E t \in Suspended : PreviousActivityReturn(t)
  \/ \E t \in Suspended, o \in {"error", "focus"}, s \in BOOLEAN :
       GeminiReturn(t, o, TRUE, s)
  \/ \E t \in Suspended : RpcExecuteTask(t, "Analytical")
  \/ \E t \in Suspended : RpcExecute(t, FALSE)
  \/ \E t \in Suspended : RpcReturn(t)
  \/ StopScreenCapture
  \/ \E t \in Suspended : StopPollReturn(t)
  \/ \E i \in ScenarioIntervals : SetScreenCaptureInterval(i)
  \/ GetTaskStats(FALSE)
  \/ GetLifetimeTaskStats(FALSE)

SpecCore == InitScenario /\ [][NextCore]_vars

(***************************************************************************)
(* A capture session on the clock (SpecSession): the session stamps, the   *)
(* created_at of the stored records and the session query, while time      *)
(* passes between the segments.  The classifier answers with one category, *)
(* is_locked_in = true and same_task = false.                              *)
(***************************************************************************)
NextSession ==
  \/ InitializeScreenCapture(TRUE)
  \/ SignInWithGoogle
  \/ StartScreenCapture(10, TRUE)
  \/ \E p \in LiveTimers : TimerTick(p)
  \/ \E t \in Suspended : SourcesReturn(t, "accepted")
  \/ \E t \in Suspended : PreviousActivityReturn(t)
  \/ \E t \in Suspended : GeminiReturn(t, "focus", TRUE, FALSE)
  \/ \E t \in Suspended : RpcExecuteTask(t, "Analytical")
  \/ \E t \in Suspended : RpcReturn(t)
  \/ StopScreenCapture
  \/ \E t \in Suspended : StopPollReturn(t)
  \/ Advance
  \/ GetTaskStats(FALSE)

SpecSession == InitScenario /\ [][NextSession]_vars

(***************************************************************************)
(* The frame acquirer (SpecCapture): what captureScreenshot does with the  *)
(* answer of desktopCapturer.getSources, the files it writes and           *)
(* lastCaptureTime, on a wall clock that advances in half seconds.  Nobody *)
(* signs in, so an analysis ends with the answer of the classifier.        *)
(***************************************************************************)
\* a frame of the primary screen at the requested thumbnail size whose PNG
\* encoding has the smallest length that is kept
PlausibleFrame == [sources |-> 1, width |-> 3840, height |-> 2160, bytes |-> MinFrameBytes]

\* what getSources and the thumbnail report: the number of screen sources,
\* the size of the first source's thumbnail and the length of its PNG
\* encoding; the plausible frame and the frames that differ from it in one
\* value, which is on the other side of the code's comparison
Frames ==
  {PlausibleFrame,
   [PlausibleFrame EXCEPT !.sources = 0],
   [PlausibleFrame EXCEPT !.width = 0],
   [PlausibleFrame EXCEPT !.height = 0],
   [PlausibleFrame EXCEPT !.bytes = MinFrameBytes - 1]}

\* mutant: the length of the encoded image is not looked at
FrameVerdictNoSizeCheck(frame) ==
  IF frame.sources = 0 THEN "rejected"
  ELSE IF frame.width = 0 \/ frame.height = 0 THEN "rejected"
  ELSE "accepted"

\* the three checks of captureScreenshot between getSources and the write
FrameVerdict(frame) ==
  IF frame.sources = 0 THEN "rejected"
  ELSE IF frame.width = 0 \/ frame.height = 0 THEN "rejected"
  ELSE IF frame.bytes < MinFrameBytes THEN "rejected"
  ELSE "accepted"

\* new Date(): the wall clock in milliseconds
Date == now * 1000 + millis

\* screenshot_<timestamp>.png in the screenshot folder: the timestamp is
\* toISOString() with its fraction of a second cut off (.split(".")[0]), so
\* the name is the whole second of the date
FileName(date) == date \div 1000

\* getSources settles with a frame: the checks, and for a frame that passes
\* them fs.writeFileSync, lastCaptureTime and the call of the analysis
FrameReturns(t, frame) ==
  /\ SourcesBody(t, FrameVerdict(frame))
  /\ IF FrameVerdict(frame) = "accepted"
     THEN /\ BagCardinality(screenshots) < MaxFrames
          /\ screenshots' = screenshots (+) One(FileName(Date))
          /\ lastCaptureTime' = Date
     ELSE UNCHANGED <<screenshots, lastCaptureTime>>
  /\ UNCHANGED <<timerVars, queryResult, outVars, millis, hint, otherInserts>>

\* half a second passes
ClockAdvances ==
  /\ now < MaxClock
  /\ IF millis = 0
     THEN millis' = 500 /\ UNCHANGED now
     ELSE millis' = 0 /\ now' = now + 1
  /\ UNCHANGED <<captureInterval, orphanTimers, captureSettings, isAnalyzing, stopRequested,
                 persisted, genAI, supabase, userEmail, popup, initialized, tasks,
                 lastOutcome, stoppedSince, stats, storeVars, timerVars, queryResult, outVars,
                 screenshots, lastCaptureTime, hint, otherInserts>>

NextCapture ==
  \/ InitializeScreenCapture(TRUE)
  \/ \E i \in IntervalInputs : StartScreenCapture(i, TRUE)
  \/ \E p \in LiveTimers : TimerTick(p)
  \/ \E t \in Suspended, f \in Frames : FrameReturns(t, f)
  \/ \E t \in Suspended : GeminiReturn(t, "focus", TRUE, FALSE)
  \/ StopScreenCapture
  \/ \E t \in Suspended : StopPollReturn(t)
  \/ \E i \in IntervalInputs : SetScreenCaptureInterval(i)
  \/ ClockAdvances

SpecCapture == InitScenario /\ [][NextCapture]_vars

(***************************************************************************)
(* The prior-activity hint (SpecHint): the record getMostRecentActivity    *)
(* returns to a classification and the record insert_activity_stat         *)
(* extends, with other processes storing records for the same owner (the   *)
(* account signed in on a second machine).                                 *)
(***************************************************************************)
\* .eq('email', email).order('created_at', descending).limit(1): created_at
\* of the owner's most recent record (Undefined: the owner has none); the
\* SELECT of insert_activity_stat orders the same way
MostRecentOf(table, email) ==
  IF RowsOf(table, email) = {} THEN Undefined
  ELSE LET last == CHOOSE i \in RowsOf(table, email) :
                     \A j \in RowsOf(table, email) : table[j].created_at <= table[i].created_at
       IN  table[last].created_at

\* getMostRecentActivity settles with the owner's most recent record
HintReturn(t) ==
  /\ PreviousActivityBody(t)
  /\ hint' = IF supabase THEN MostRecentOf(stats, "me") ELSE Undefined
  /\ UNCHANGED <<timerVars, queryResult, outVars, screenshots, lastCaptureTime, millis,
                 otherInserts>>

\* the store runs the insert_activity_stat call of this process
RpcExecuteShared(t) ==
  /\ RpcExecuteBody(t, TRUE, MaxRecords + MaxOtherInserts)
  /\ UNCHANGED auxVars

\* another process signed in as the same user has insert_activity_stat run
OtherProcessInserts(seconds, same_task) ==
  /\ otherInserts < MaxOtherInserts
  /\ Len(stats) < MaxRecords + MaxOtherInserts
  /\ otherInserts' = otherInserts + 1
  /\ stats' = InsertActivityStat(stats, "me", seconds, same_task)
  /\ UNCHANGED <<schedVars, storeVars, timerVars, queryResult, outVars, screenshots,
                 lastCaptureTime, millis, hint>>

NextHint ==
  \/ InitializeScreenCapture(TRUE)
  \/ SignInWithGoogle
  \/ StartScreenCapture(1, TRUE)
  \/ \E p \in LiveTimers : TimerTick(p)
  \/ \E t \in Suspended : SourcesReturn(t, "accepted")
  \/ \E t \in Suspended : HintReturn(t)
  \/ \E t \in Suspended, s \in BOOLEAN : GeminiReturn(t, "focus", TRUE, s)
  \/ \E t \in Suspended : RpcExecuteShared(t)
  \/ \E t \in Suspended : RpcReturn(t)
  \/ \E b \in BOOLEAN : OtherProcessInserts(1, b)

SpecHint == InitScenario /\ [][NextHint]_vars

(***************************************************************************)
(* The capture cycle with what it sends out (SpecOutput): the              *)
(* stats-updated events and the classifier requests that a timeout leaves  *)
(* outstanding.  The classifier reports same_task = false: the value only  *)
(* enters the stored seq_time.                                             *)
(***************************************************************************)
\* mutant: the event is sent whatever the rpc returned
InsertAlwaysReported(t) == TRUE

\* `if (insertError) ... else if (data)`: the rpc returned the new row
InsertReported(t) == t.ok

\* broadcastStatsUpdated(): one more stats-updated event
BroadcastStatsUpdated ==
  /\ broadcasts < MaxBroadcasts
  /\ broadcasts' = broadcasts + 1

\* the rpc settles; broadcastStatsUpdated() when it returned the new row
RpcReturnBroadcasts(t) ==
  /\ RpcReturnBody(t)
  /\ IF InsertReported(t) THEN BroadcastStatsUpdated ELSE UNCHANGED broadcasts
  /\ UNCHANGED <<timerVars, queryResult, abandoned, capVars>>

\* stopScreenCapture(): with nothing in flight it runs to its end, where it
\* calls broadcastStatsUpdated()
StopBroadcasts ==
  /\ StopBody
  /\ IF isAnalyzing THEN UNCHANGED broadcasts ELSE BroadcastStatsUpdated
  /\ UNCHANGED <<timerVars, queryResult, abandoned, capVars>>

\* the polling loop of stopScreenCapture ends: broadcastStatsUpdated(), return
StopPollBroadcasts(t) ==
  /\ StopPollBody(t)
  /\ BroadcastStatsUpdated
  /\ UNCHANGED <<timerVars, queryResult, abandoned, capVars>>

\* the 30 s timer rejects first: the await throws, and the request, which
\* nothing cancels, stays outstanding
GeminiTimesOut(t) ==
  /\ abandoned < MaxAbandoned
  /\ \E l \in BOOLEAN, s \in BOOLEAN : GeminiBody(t, "timeout", l, s)
  /\ abandoned' = abandoned + 1
  /\ UNCHANGED <<timerVars, queryResult, broadcasts, capVars>>

\* the classifier answers (or fails) a request whose await has timed out:
\* geminiPromise settles and Promise.race, settled already, ignores it
LateGeminiResponse ==
  /\ abandoned > 0
  /\ abandoned' = abandoned - 1
  /\ UNCHANGED <<schedVars, stats, storeVars, timerVars, queryResult, broadcasts,
                 capVars>>

NextOutput ==
  \/ InitializeScreenCapture(TRUE)
  \/ SignInWithGoogle
  \/ \E i \in IntervalInputs : StartScreenCapture(i, TRUE)
  \/ \E p \in LiveTimers : TimerTick(p)
  \/ \E t \in Suspended, f \in {"rejected", "threw", "accepted"} : SourcesReturn(t, f)
  \/ \E t \in Suspended : PreviousActivityReturn(t)
  \/ \E t \in Suspended, o \in {"error", "noFunctionCall", "focus"},
        l \in BOOLEAN : GeminiReturn(t, o, l, FALSE)
  \/ \E t \in Suspended : GeminiTimesOut(t)
  \/ LateGeminiResponse
  \/ \E t \in Suspended, ok \in BOOLEAN : RpcExecute(t, ok)
  \/ \E t \in Suspended : RpcReturnBroadcasts(t)
  \/ StopBroadcasts
  \/ \E t \in Suspended : StopPollBroadcasts(t)
  \/ PopupClosed

SpecOutput == InitScenario /\ [][NextOutput]_vars

(***************************************************************************)
(* Claims about the store.                                                 *)
(***************************************************************************)
\* the owner's row inserted just before row i (0: none)
PredecessorOf(table, i) ==
  LET earlier == {j \in RowsOf(table, table[i].email) : j < i}
  IN  IF earlier = {} THEN 0 ELSE CHOOSE j \in earlier : \A k \in earlier : k <= j

\* the number of the owner's rows up to and including row i
RankOf(table, i) == Cardinality({j \in RowsOf(table, table[i].email) : j <= i})

\* C2: concurrent same-task inserts of one owner serialize: no two sessions of
\* one owner are past the read of the most recent seq_time and before their
\* write at once, and each same-task row's seq_time is its predecessor's
\* seq_time plus its own seconds, hence strictly larger.
C2_SerializedIncrements ==
  /\ \A c, d \in Clients :
       (c # d /\ session[c].pc = "insert" /\ session[d].pc = "insert")
         => session[c].email # session[d].email
  /\ \A i \in 1..Len(stats) :
       (stats[i].same_task /\ PredecessorOf(stats, i) # 0)
         => /\ stats[i].seq_time = stats[PredecessorOf(stats, i)].seq_time + stats[i].seconds
            /\ stats[i].seq_time > stats[PredecessorOf(stats, i)].seq_time

\* two same-task calls of one owner overlap, one holding the lock after its
\* read and the other waiting for the lock, after an earlier row of the owner
C2_Witness ==
  \E c, d \in Clients :
    /\ c # d
    /\ session[c].pc = "insert" /\ session[d].pc = "lock"
    /\ session[c].email = session[d].email
    /\ session[c].same_task /\ session[d].same_task
    /\ session[c].previous # Undefined

\* C3: the row an insert adds has seq_time = p_seconds when p_same_task is
\* false or the owner had no row, and the seq_time of the owner's most recent
\* row plus p_seconds otherwise.
C3_SeqTimeOfInsert ==
  [][Len(stats') = Len(stats) + 1 =>
       LET r == stats'[Len(stats')]
           p == PredecessorOf(stats', Len(stats'))
       IN  r.seq_time = IF r.same_task /\ p # 0
                        THEN stats[p].seq_time + r.seconds
                        ELSE r.seconds]_vars

\* a run was extended and then reset by a row with p_same_task false
C3_Witness ==
  \E i, j \in 1..Len(stats) :
    /\ PredecessorOf(stats, j) = i
    /\ stats[i].same_task /\ PredecessorOf(stats, i) # 0
    /\ ~stats[j].same_task
    /\ stats[j].seq_time = stats[j].seconds
    /\ stats[i].seq_time # stats[j].seconds

\* C4: when all rows of an owner were inserted with p_same_task true and the
\* same seconds s, the k-th row's seq_time is k * s.
C4_KthSeqTime ==
  \A e \in Owners, s \in 1..MaxSeconds :
    (\A i \in RowsOf(stats, e) : stats[i].same_task /\ stats[i].seconds = s)
      => \A i \in RowsOf(stats, e) : stats[i].seq_time = RankOf(stats, i) * s

\* three same-task rows of one owner with the same seconds
C4_Witness ==
  \E e \in Owners :
    /\ Cardinality(RowsOf(stats, e)) >= 3
    /\ \A i \in RowsOf(stats, e) : stats[i].same_task /\ stats[i].seconds = 2

(***************************************************************************)
(* Claims about the scheduler and the gate.                                *)
(***************************************************************************)
\* the awaits analyzeScreenshotWithGemini reaches between isAnalyzing = true
\* and its finally block
GuardedPcs == {"prev", "gemini", "rpc", "rpcDone"}

\* the invocations of analyzeScreenshotWithGemini that hold the guard
InFlight == {t \in Suspended : t.pc \in GuardedPcs}

\* C1: in every reachable state at most one invocation of
\* analyzeScreenshotWithGemini is between acquiring the single-flight guard
\* and releasing it, and while one is, isAnalyzing is set
C1_SingleFlight ==
  /\ Cardinality(InFlight) <= 1
  /\ \A t \in InFlight : CopiesIn(t, tasks) = 1 /\ isAnalyzing

\* C1: a classification is in flight while a second capture cycle, fired by a
\* live timer, is about to hand its frame to the gate
C1_Witness ==
  /\ InFlight # {}
  /\ LiveTimers # {}
  /\ \E u \in Suspended : u.kind = "tick" /\ u.pc = "getSources"

\* C5: once stopScreenCapture has returned, no activity record is inserted
\* until startScreenCapture is called again
C5_NoInsertAfterStop == [][stoppedSince => Len(stats') = Len(stats)]_vars

\* C6: a classification that had not passed the post-call checks when stop was
\* requested inserts no record and shows no notification
C6_DiscardedAfterStop ==
  /\ \A t \in Suspended : t.flagged => ~(t.pc = "rpcDone" /\ t.ok)
  /\ ~popup.flagged

\* C7: a call of analyzeScreenshotWithGemini made while another call is in
\* flight returns as skipped: its coroutine ends, no classifier request is
\* issued, the guard and its holder are untouched, nothing is queued
C7_SecondCallSkipped ==
  [][\A t \in Suspended :
       (InFlight # {} /\ SourcesReturn(t, "accepted"))
          => /\ tasks' = tasks (-) One(t)
             /\ InFlight' = InFlight
             /\ isAnalyzing' = isAnalyzing
             /\ t.kind = "tick" => lastOutcome' \in {"skippedBusy", "skippedPopup"}
             /\ UNCHANGED <<stats, popup>>]_vars

\* C7: the last call of the gate was skipped because of the classification
\* that is still in flight
C7_Witness == lastOutcome = "skippedBusy" /\ InFlight # {}

\* C8: every call of analyzeScreenshotWithGemini that acquired the guard
\* leaves isAnalyzing = false when it returns, whatever the exit path
C8_GuardReleased ==
  [][\A t \in Suspended :
       /\ (t.pc \in GuardedPcs /\ tasks' = tasks (-) One(t)) => ~isAnalyzing'
       /\ (/\ t.kind = "tick"
           /\ SourcesReturn(t, "accepted")
           /\ tasks' = tasks (-) One(t)
           /\ lastOutcome' \in {"abortAtEntry", "readError"}) => ~isAnalyzing']_vars

\* C8: the last call of the gate ended by the 30 s timeout and the guard is free
C8_Witness == lastOutcome = "timeout" /\ ~isAnalyzing /\ InFlight = {}

\* C9: startScreenCapture with an interval below 1 changes no state
C9_InvalidIntervalNoChange ==
  [][\A i \in IntervalInputs :
       (i < 1 /\ StartScreenCapture(i, TRUE))
          => UNCHANGED <<captureInterval, orphanTimers, captureSettings, stopRequested,
                         persisted, tasks>>]_vars

\* C10: startScreenCapture without the screen-access permission returns the
\* failure result and changes no state, and fires no capture cycle
C10_PermissionDeniedNoChange ==
  [][\A i \in IntervalInputs :
       StartScreenCapture(i, FALSE)
          => /\ lastOutcome' = "start:permission"
             /\ UNCHANGED <<captureInterval, orphanTimers, captureSettings, stopRequested,
                            persisted, tasks, isAnalyzing>>]_vars

\* C10: the call was refused while a capture session was running, and the
\* session is as it was
C10_Witness ==
  /\ lastOutcome = "start:permission"
  /\ captureSettings.isCapturing
  /\ captureInterval # NoTimer

\* C11: after stopScreenCapture has returned, no capture cycle fires until
\* startScreenCapture is called again
C11_NoCycleAfterStop ==
  [][stoppedSince => ~(\E p \in LiveTimers : TimerTick(p))]_vars

C13_StopIdempotent ==
  [][(~captureSettings.isCapturing /\ captureInterval = NoTimer /\ StopScreenCapture)
       => UNCHANGED <<captureSettings, persisted>>]_vars

\* C14: after setScreenCaptureInterval(n), n >= 1, returns while capturing,
\* every timer that fires from then on has period n: the live timers, and the
\* timer a startScreenCapture still awaiting its first cycle will install; and
\* the call leaves isCapturing, sessionStartAt and sessionEndAt alone
C14_PeriodAfterSetInterval ==
  [][\A n \in IntervalInputs :
       (n >= 1 /\ captureSettings.isCapturing /\ SetScreenCaptureInterval(n))
          => /\ \A p \in LiveTimers' : p = n
             /\ \A t \in Suspended : t.kind = "start" => t.arg = n
             /\ captureSettings'.isCapturing = captureSettings.isCapturing
             /\ captureSettings'.sessionStartAt = captureSettings.sessionStartAt
             /\ captureSettings'.sessionEndAt = captureSettings.sessionEndAt]_vars

\* C16: every inserted record's seconds is the interval that was stored when
\* the record's frame was captured
C16_SecondsIsIntervalAtCapture ==
  [][\A t \in Suspended :
       (t.pc = "rpc" /\ RpcExecute(t, TRUE))
          => stats'[Len(stats')].seconds = t.captured]_vars

\* C15: after setScreenCaptureInterval changed the period from old to new
\* while capturing, no capture cycle fires less than min(old, new) seconds
\* after the cycle before it
C15_MinGapAfterSwap ==
  [][\A d \in DueTimers :
       (swapMin > 0 /\ lastFire # Undefined /\ TimedTick(d))
          => now - lastFire >= swapMin]_vars

(***************************************************************************)
(* Claims about the aggregation queries.                                   *)
(***************************************************************************)
\* the stored records of `email` with category `task` inside the session
\* bounds, both inclusive, an unset bound not applied
RecordsInSession(email, task) ==
  {i \in DOMAIN stats :
     /\ stats[i].email = email
     /\ stats[i].task = task
     /\ \/ captureSettings.sessionStartAt = Undefined
        \/ stats[i].created_at >= captureSettings.sessionStartAt
     /\ \/ captureSettings.sessionEndAt = Undefined
        \/ stats[i].created_at <= captureSettings.sessionEndAt}

RECURSIVE SumOver(_)
\* the sum of the seconds of a set of stored records
SumOver(records) ==
  IF records = {} THEN 0
  ELSE LET i == CHOOSE i \in records : TRUE
       IN  stats[i].seconds + SumOver(records \ {i})

\* C17: a result of either query has exactly one row per category of the
\* task_category enum (zero-filled for a category without records)
C17_OneRowPerCategory ==
  (queryResult.fn # "none" /\ queryResult.rows # <<>>)
    => /\ Len(queryResult.rows) = Cardinality(TaskEnum)
       /\ {queryResult.rows[i].task : i \in DOMAIN queryResult.rows} = TaskEnum

\* C18: every row getTaskStats returns has the count and the summed seconds of
\* the signed-in owner's records of that category inside the session bounds
C18_OwnerAggregate ==
  queryResult.fn = "getTaskStats"
    => \A i \in DOMAIN queryResult.rows :
         LET row == queryResult.rows[i]
         IN  /\ row.count = Cardinality(RecordsInSession(SignedIn, row.task))
             /\ row.total_seconds = SumOver(RecordsInSession(SignedIn, row.task))

\* C19: the rows getTaskStats returns aggregate exactly the records inside the
\* session bounds, both inclusive; an unset bound is not applied
C19_SessionBounds ==
  queryResult.fn = "getTaskStats"
    => \A i \in DOMAIN queryResult.rows :
         LET row == queryResult.rows[i]
             inside == UNION {RecordsInSession(e, row.task) : e \in Owners}
         IN  row.count = Cardinality(inside) /\ row.total_seconds = SumOver(inside)

\* C19: a query over a window with both bounds set has counted a record stamped
\* at the lower bound and one at the upper bound, and left one out
C19_Witness ==
  /\ queryResult.fn = "getTaskStats" /\ queryResult.rows # <<>>
  /\ captureSettings.sessionStartAt # Undefined
  /\ captureSettings.sessionEndAt = captureSettings.sessionStartAt
  /\ \E i, j \in DOMAIN stats :
       /\ stats[i].task = "Analytical" /\ stats[j].task = "Analytical"
       /\ stats[i].created_at = captureSettings.sessionStartAt
       /\ stats[j].created_at > captureSettings.sessionEndAt
  /\ queryResult.rows[1].count = 1

(***************************************************************************)
(* Claims about the whole run.                                             *)
(***************************************************************************)
\* the scenario has run: one record of ten seconds is stored, the last start
\* was rejected for its interval, the capture is stopped and nothing is in flight
ScenarioDone ==
  /\ Len(stats) = 1 /\ stats[1].email = "me"
  /\ stats[1].seconds = 10 /\ stats[1].seq_time = 10
  /\ lastOutcome = "start:interval"
  /\ stoppedSince /\ tasks = EmptyBag
  /\ ~captureSettings.isCapturing
  /\ captureSettings.sessionStartAt # Undefined /\ captureSettings.sessionEndAt # Undefined

\* C20: after startScreenCapture(10) has stored one record (seconds 10,
\* seq_time 10), a rejected startScreenCapture(0) and stopScreenCapture,
\* getTaskStats reports total_seconds = 10 for the category of that record
C20_ScenarioAggregate ==
  [][(ScenarioDone /\ GetTaskStats(FALSE))
       => \E i \in DOMAIN queryResult'.rows :
            /\ queryResult'.rows[i].task = stats[1].task
            /\ queryResult'.rows[i].total_seconds = 10]_vars

(***************************************************************************)
(* Claims about failures of a capture cycle.                               *)
(***************************************************************************)
\* the step in which the capture cycle of coroutine t ends in a failure: the
\* frame is rejected or the capture throws, the frame cannot be read, the
\* classifier call fails or times out, or the insert fails
FailedCycleEnds(t) ==
  \/ \E f \in {"rejected", "threw"} : SourcesReturn(t, f)
  \/ /\ PreviousActivityReturn(t)
     /\ tasks' = tasks (-) One(t)
  \/ \E o \in {"error", "timeout"}, l \in BOOLEAN, s \in BOOLEAN : GeminiReturn(t, o, l, s)
  \/ /\ RpcReturn(t)
     /\ ~t.ok

C22_OtherOwnersNotBlocked ==
  \A c, d \in Clients :
    (/\ session[c].pc = "lock"
     /\ session[d].pc \in {"select", "insert"}
     /\ session[c].email # session[d].email)
      => advisoryLocks[Hashtext(session[c].email)] # d

OutstandingRequests ==
  LET Pc(t) == t.pc
  IN  CopiesIn("gemini", BagOfAll(Pc, tasks)) + abandoned

\* the capture cycle of coroutine t ends in this step
CycleEnds(t) == t.kind \in {"start", "tick"} /\ tasks' = tasks (-) One(t)

\* a stopScreenCapture call reaches its end in this step
StopEnds ==
  \/ StopBody /\ ~isAnalyzing
  \/ \E t \in Suspended : t.pc = "poll" /\ tasks' = tasks (-) One(t)

\* C24: a stats-updated event is sent only in the step in which a successful
\* insert returns or a stop call ends, one event per step; the return of every
\* successful insert sends one, and a cycle that ends in any other way sends none
C24_BroadcastOnlyAfterWrite ==
  [][/\ broadcasts' # broadcasts
          => /\ broadcasts' = broadcasts + 1
             /\ \/ StopEnds
                \/ \E t \in Suspended : CycleEnds(t) /\ t.pc = "rpcDone" /\ t.ok
     /\ \A t \in Suspended :
          CycleEnds(t)
            => broadcasts' = broadcasts + (IF t.pc = "rpcDone" /\ t.ok THEN 1 ELSE 0)]_vars

\* C24: the cycle of a timer tick has ended with a stored record, and the one
\* event sent so far is the one of that insert
C24_Witness ==
  /\ Len(stats) = 1
  /\ lastOutcome = "written"
  /\ broadcasts = 1

\* C25: at most one classifier request of this process is outstanding
C25_OneRequestOutstanding == OutstandingRequests <= 1

\* C28: the step in which the 30 s timer ends the await of a classifier call
\* ends the cycle and releases the guard, stores no record, shows no
\* notification and sends no event; the step in which the late answer arrives
\* changes nothing but the number of outstanding requests
C28_TimeoutIsFailure ==
  [][/\ abandoned' > abandoned
          => /\ \E t \in Suspended : t.pc = "gemini" /\ CycleEnds(t)
             /\ ~isAnalyzing'
             /\ stats' = stats /\ popup' = popup /\ broadcasts' = broadcasts
     /\ abandoned' < abandoned
          => UNCHANGED <<schedVars, stats, broadcasts>>]_vars

\* C28: the cycle of a timer tick has timed out and the late answer has
\* arrived since: no record, no popup, no event
C28_Witness ==
  /\ lastOutcome = "timeout"
  /\ abandoned = 0
  /\ stats = <<>> /\ ~popup.open /\ broadcasts = 0

(***************************************************************************)
(* Claims about the timers and the gate.                                   *)
(***************************************************************************)
\* C26: at most one repeating capture timer is live
C26_OneTimerLive ==
  Cardinality(orphanTimers) + (IF captureInterval # NoTimer THEN 1 ELSE 0) <= 1

\* C27: a frame handed to analyzeScreenshotWithGemini while the abort flag is
\* set ends its cycle in that step: nothing is awaited (no read of the most
\* recent activity, no classifier request, no insert), no record is stored
\* and no popup is opened, and the call does not leave the guard held
C27_AbortAtEntry ==
  [][\A t \in Suspended :
       (stopRequested /\ SourcesReturn(t, "accepted"))
         => /\ CycleEnds(t)
            /\ stats' = stats
            /\ popup' = popup
            /\ ~isAnalyzing' \/ isAnalyzing]_vars

\* C27: the cycle of a timer tick was aborted at the entry of the analysis,
\* with the classifier configured, the guard free and no popup open
C27_Witness ==
  /\ lastOutcome = "abortAtEntry"
  /\ stopRequested /\ genAI
  /\ ~isAnalyzing /\ ~popup.open
  /\ tasks = EmptyBag

\* C29: whenever the guard is held it is eventually released
C29_GuardEventuallyReleased == isAnalyzing ~> ~isAnalyzing

\* the classification of coroutine t has answered with is_locked_in = false,
\* has passed the checks of the abort flag and of isCapturing, and its call
\* completes in this step: after its insert has settled, or at once when no
\* insert is made
CompletesOffTask(t) ==
  \/ t.pc = "rpcDone" /\ ~t.lockedIn /\ CycleEnds(t)
  \/ /\ t.pc = "gemini"
     /\ ~stopRequested /\ captureSettings.isCapturing
     /\ \E s \in BOOLEAN : GeminiReturn(t, "focus", FALSE, s)
     /\ CycleEnds(t)

\* C30: the popup is opened in exactly the steps in which a classification
\* that reported is_locked_in = false and was not discarded completes
C30_NotifiedWhenOffTask ==
  [][(popup'.open /\ ~popup.open) <=> (\E t \in Suspended : CompletesOffTask(t))]_vars

\* C30: the popup is open after the cycle of a timer tick whose insert failed
C30_Witness ==
  /\ popup.open
  /\ lastOutcome = "insertError"

(***************************************************************************)
(* Claims about the status and the session window.                         *)
(***************************************************************************)
\* the startScreenCapture calls awaiting their first capture cycle
StartInProgress == {t \in Suspended : t.kind = "start"}

\* C34: whenever no startScreenCapture call is in progress, isCapturing is
\* true exactly when a repeating capture timer is live
C34_CapturingIffTimer ==
  StartInProgress = {} => (captureSettings.isCapturing <=> LiveTimers # {})

\* C39: while isCapturing is true sessionEndAt is unset, and whenever
\* sessionEndAt is set, sessionStartAt is set and not later
C39_WindowWellFormed ==
  /\ captureSettings.isCapturing => captureSettings.sessionEndAt = Undefined
  /\ captureSettings.sessionEndAt # Undefined
       => /\ captureSettings.sessionStartAt # Undefined
          /\ captureSettings.sessionStartAt <= captureSettings.sessionEndAt

(***************************************************************************)
(* Claims about a skipped analysis.                                        *)
(***************************************************************************)
\* C36: a frame handed to analyzeScreenshotWithGemini while the popup is
\* open, an analysis is in flight or the classifier client is missing leaves
\* isAnalyzing as it was, and the call in flight keeps the guard
C36_SkipLeavesGuard ==
  [][\A t \in Suspended :
       (SourcesReturn(t, "accepted") /\ (popup.open \/ isAnalyzing \/ ~genAI))
         => /\ isAnalyzing' = isAnalyzing
            /\ \A u \in InFlight : u \in InFlight' /\ isAnalyzing']_vars

\* C36: a call was skipped while the classifier request of another call is
\* outstanding, and the guard is still held
C36_Witness ==
  /\ lastOutcome = "skippedBusy"
  /\ isAnalyzing
  /\ \E u \in InFlight : u.pc = "gemini"

(***************************************************************************)
(* Claims about the settings file.                                         *)
(***************************************************************************)
\* a startScreenCapture call returns its success result in this step: after
\* its first capture cycle, or at once when the popup is open
StartSucceeds ==
  \/ \E t \in StartInProgress : tasks' = tasks (-) One(t)
  \/ /\ \E i \in IntervalInputs : StartScreenCapture(i, TRUE)
     /\ lastOutcome' = "start:ok"

\* setScreenCaptureInterval accepts its argument in this step
SetIntervalAccepted == \E i \in IntervalInputs : i >= 1 /\ SetScreenCaptureInterval(i)

\* initializeScreenCapture calls startScreenCapture in this step: the call is
\* refused for the permission, or opens a session and awaits its first capture
AutoStartCalled ==
  \/ lastOutcome' = "start:permission"
  \/ /\ tasks' = One(Task("start", "getSources", persisted.interval))
     /\ captureSettings'.isCapturing
     /\ captureSettings'.interval = persisted.interval

C35_NoWriteAcrossSessions ==
  [][\A t \in Suspended : (t.pc = "rpc" /\ t.flagged) => ~RpcExecute(t, TRUE)]_vars

(***************************************************************************)
(* Claims about the popup.                                                 *)
(***************************************************************************)
\* the capture cycles of timer callbacks awaiting their frame
TickCycles(bag) == CopiesIn(Task("tick", "getSources", 0), bag)

\* C40: while the popup is open no step starts the capture cycle of a timer
\* callback, issues a classifier request or inserts a record; the step that
\* closes the popup leaves the timers, isCapturing and the session as they
\* are; and with the popup closed every live timer's tick starts a capture cycle
C40_PopupPausesCapture ==
  [][/\ popup.open
          => /\ TickCycles(tasks') <= TickCycles(tasks)
             /\ InFlight' = {}
             /\ stats' = stats
     /\ (popup.open /\ ~popup'.open)
          => UNCHANGED <<captureInterval, orphanTimers, captureSettings>>
     /\ (~popup.open /\ BagCardinality(tasks) < MaxTasks)
          => \A p \in LiveTimers : ENABLED TimerTick(p)]_vars

\* C40: the popup is open while a session is capturing with its timer live,
\* and no capture cycle is under way
C40_Witness ==
  /\ popup.open
  /\ captureSettings.isCapturing /\ captureInterval # NoTimer
  /\ tasks = EmptyBag

\* the records stored since the session was opened
SessionRecords ==
  {i \in DOMAIN stats : stats[i].created_at >= captureSettings.sessionStartAt}

\* C37: once a session is closed, every record stored since it was opened has
\* created_at within sessionStartAt and sessionEndAt
C37_RecordsInsideWindow ==
  (captureSettings.sessionStartAt # Undefined /\ captureSettings.sessionEndAt # Undefined)
    => \A i \in SessionRecords : stats[i].created_at <= captureSettings.sessionEndAt

(***************************************************************************)
(* Claims about the prior-activity hint.                                   *)
(***************************************************************************)
\* C38: when an insert with same_task = true is executed, the owner's most
\* recent record, whose seq_time the insert extends, is the record that was
\* read for the hint of that classification
C38_HintIsExtendedRecord ==
  [][\A t \in Suspended :
       (t.pc = "rpc" /\ t.same_task /\ RpcExecuteShared(t))
         => MostRecentOf(stats, "me") = hint]_vars

(***************************************************************************)
(* Claims about the frame acquirer.                                        *)
(***************************************************************************)
\* C31: a frame with no screen source, a width or height of zero or an
\* encoding shorter than 1000 bytes ends its capture cycle in the step in
\* which it arrives: no file is written, lastCaptureTime keeps its value, the
\* analysis is not entered (the guard, the calls in flight and, for a timer
\* callback, the outcome of the last call are as before), nothing is inserted
C31_RejectedFrameNoEffect ==
  [][\A t \in Suspended, f \in Frames :
       (/\ f.sources = 0 \/ f.width = 0 \/ f.height = 0 \/ f.bytes < 1000
        /\ t.pc = "getSources"
        /\ FrameReturns(t, f))
         => /\ CycleEnds(t)
            /\ UNCHANGED <<screenshots, lastCaptureTime, isAnalyzing, stats, popup>>
            /\ InFlight' = InFlight
            /\ t.kind = "tick" => lastOutcome' = lastOutcome]_vars

\* C31: a start has returned after its first capture cycle and the session
\* is capturing, and no frame was ever written: the first frame was rejected
C31_Witness ==
  /\ lastOutcome = "start:ok"
  /\ captureSettings.isCapturing /\ captureInterval # NoTimer
  /\ tasks = EmptyBag
  /\ screenshots = EmptyBag /\ lastCaptureTime = Undefined

\* C32: no path has been written twice
C32_FrameFilesDistinct ==
  \A path \in BagToSet(screenshots) : CopiesIn(path, screenshots) = 1

====
